---- MODULE Spec2Model ----
(***************************************************************************)
(* A model of the token-ring node of src/polling/token-ring.py             *)
(* (class TokenRingNode): three nodes, each with its membership and        *)
(* plotter beliefs, exchanging newline-terminated JSON frames over         *)
(* short-lived connections.                                                *)
(***************************************************************************)
EXTENDS Integers, Sequences, FiniteSets, Bags, TLC

(***************************************************************************)
(* Bounds of the model.                                                    *)
(***************************************************************************)
\* round is unbounded in the code; steps that would raise it past MaxRound are not taken.
MaxRound == 2
\* numpis is unbounded above in the code (reconnect); reconnects past MaxNumpis are not delivered.
MaxNumpis == 4
\* A sensor_data payload grows by one record per hop; sends of more than MaxPayload records are not taken.
MaxPayload == 4
\* Faults of the environment (a connect to a listening peer fails, a database call fails);
\* further ones are not taken.
MaxFaults == 1

(***************************************************************************)
(* Python values, as far as json.dumps / json.loads deal in them.  Every   *)
(* value is a record of the same four fields so that values of different   *)
(* Python types can sit in one sequence.  A dict is the sequence of its    *)
(* items in insertion order, each item a "pair" holding its key in str     *)
(* and its value in vals[1].                                               *)
(***************************************************************************)
PyNone == [kind |-> "null", num |-> 0, str |-> "", vals |-> <<>>]
PyStr(s) == [kind |-> "str", num |-> 0, str |-> s, vals |-> <<>>]
PyNum(n) == [kind |-> "num", num |-> n, str |-> "", vals |-> <<>>]
PyList(items) == [kind |-> "list", num |-> 0, str |-> "", vals |-> items]
PyPair(k, v) == [kind |-> "pair", num |-> 0, str |-> k, vals |-> <<v>>]
PyDict(pairs) == [kind |-> "dict", num |-> 0, str |-> "", vals |-> pairs]

RECURSIVE LastPairIdx(_, _, _)
\* Index of the item of dict d with key k, 0 if there is none.
LastPairIdx(d, k, i) ==
    IF i = 0 THEN 0
    ELSE IF d.vals[i].str = k THEN i
    ELSE LastPairIdx(d, k, i - 1)

\* key in d
HasKey(d, k) == LastPairIdx(d, k, Len(d.vals)) > 0

\* d.get(k, default)
DictGet(d, k, default) ==
    LET i == LastPairIdx(d, k, Len(d.vals))
    IN  IF i = 0 THEN default ELSE d.vals[i].vals[1]

(***************************************************************************)
(* The wire.  A frame is a sequence of tokens: the JSON punctuation, one   *)
(* token per string literal, number literal and null, "nl" for the         *)
(* delimiter b"\n", "bad8" for a byte sequence that is not UTF-8 and       *)
(* "junk" for text that is no JSON token.  The blanks json.dumps puts      *)
(* after "," and ":" are not modelled.                                     *)
(***************************************************************************)
Tok(c) == [c |-> c, s |-> "", n |-> 0]
StrTok(s) == [c |-> "str", s |-> s, n |-> 0]
NumTok(n) == [c |-> "num", s |-> "", n |-> n]
NL == Tok("nl")

RECURSIVE Dumps(_)
RECURSIVE DumpsItems(_, _)
\* The items of a list or dict from index i on, comma-separated.
DumpsItems(items, i) ==
    IF i > Len(items) THEN <<>>
    ELSE Dumps(items[i])
         \o (IF i < Len(items) THEN <<Tok(",")>> ELSE <<>>)
         \o DumpsItems(items, i + 1)

\* json.dumps(v)
Dumps(v) ==
    CASE v.kind = "null" -> <<Tok("null")>>
      [] v.kind = "str"  -> <<StrTok(v.str)>>
      [] v.kind = "num"  -> <<NumTok(v.num)>>
      [] v.kind = "list" -> <<Tok("[")>> \o DumpsItems(v.vals, 1) \o <<Tok("]")>>
      [] v.kind = "pair" -> <<StrTok(v.str), Tok(":")>> \o Dumps(v.vals[1])
      [] v.kind = "dict" -> <<Tok("{")>> \o DumpsItems(v.vals, 1) \o <<Tok("}")>>

\* What json.loads gives back: a value and the position after it, or a JSONDecodeError.
ParseFail == [ok |-> FALSE, val |-> PyNone, pos |-> 0]
ParseOk(v, p) == [ok |-> TRUE, val |-> v, pos |-> p]
TokAt(toks, i) == IF i >= 1 /\ i <= Len(toks) THEN toks[i].c ELSE "eof"

\* A dict keeps one item per key: a repeated key takes the later value.
PutPair(pairs, k, v) ==
    IF \E i \in 1..Len(pairs) : pairs[i].str = k
    THEN [i \in 1..Len(pairs) |-> IF pairs[i].str = k THEN PyPair(k, v) ELSE pairs[i]]
    ELSE Append(pairs, PyPair(k, v))

RECURSIVE ParseValue(_, _)
RECURSIVE ParseElems(_, _, _)
RECURSIVE ParsePairs(_, _, _)
\* The elements of a list after "[", up to and including "]".
ParseElems(toks, i, acc) ==
    LET r == ParseValue(toks, i)
    IN  IF ~r.ok THEN ParseFail
        ELSE IF TokAt(toks, r.pos) = "," THEN ParseElems(toks, r.pos + 1, Append(acc, r.val))
        ELSE IF TokAt(toks, r.pos) = "]" THEN ParseOk(PyList(Append(acc, r.val)), r.pos + 1)
        ELSE ParseFail

\* The items of an object after "{", up to and including "}".
ParsePairs(toks, i, acc) ==
    IF TokAt(toks, i) # "str" \/ TokAt(toks, i + 1) # ":" THEN ParseFail
    ELSE LET r == ParseValue(toks, i + 2)
         IN  IF ~r.ok THEN ParseFail
             ELSE IF TokAt(toks, r.pos) = ","
                  THEN ParsePairs(toks, r.pos + 1, PutPair(acc, toks[i].s, r.val))
             ELSE IF TokAt(toks, r.pos) = "}"
                  THEN ParseOk(PyDict(PutPair(acc, toks[i].s, r.val)), r.pos + 1)
             ELSE ParseFail

ParseValue(toks, i) ==
    LET c == TokAt(toks, i)
    IN  CASE c = "null" -> ParseOk(PyNone, i + 1)
          [] c = "str"  -> ParseOk(PyStr(toks[i].s), i + 1)
          [] c = "num"  -> ParseOk(PyNum(toks[i].n), i + 1)
          [] c = "["    -> IF TokAt(toks, i + 1) = "]"
                           THEN ParseOk(PyList(<<>>), i + 2)
                           ELSE ParseElems(toks, i + 1, <<>>)
          [] c = "{"    -> IF TokAt(toks, i + 1) = "}"
                           THEN ParseOk(PyDict(<<>>), i + 2)
                           ELSE ParsePairs(toks, i + 1, <<>>)
          [] OTHER      -> ParseFail

IsSpace(t) == t.c = "nl"

\* json.loads(text): white space between tokens is skipped, text after the value is an error.
Loads(text) ==
    LET toks == SelectSeq(text, LAMBDA t : ~IsSpace(t))
        r == ParseValue(toks, 1)
    IN  IF r.ok /\ r.pos = Len(toks) + 1 THEN r ELSE ParseFail

RECURSIVE LStrip(_)
LStrip(text) == IF text # <<>> /\ IsSpace(Head(text)) THEN LStrip(Tail(text)) ELSE text
RECURSIVE RStrip(_)
RStrip(text) ==
    IF text # <<>> /\ IsSpace(text[Len(text)])
    THEN RStrip(SubSeq(text, 1, Len(text) - 1))
    ELSE text
\* str.strip()
Strip(text) == RStrip(LStrip(text))

\* bytes.decode() raises UnicodeDecodeError on bytes that are not UTF-8.
DecodeRaises(inb) == \E i \in 1..Len(inb) : inb[i].c = "bad8"

\* b"\n" in data.inb
HasDelimiter(inb) == \E i \in 1..Len(inb) : inb[i].c = "nl"

\* A sender that wraps the payload once more: {"type": t, "data": {"data": message}}.
WireFrame_nested(msg_type, message) ==
    Dumps(PyDict(<<PyPair("type", PyStr(msg_type)),
                   PyPair("data", PyDict(<<PyPair("data", message)>>))>>)) \o <<NL>>

\* (json.dumps({"type": msg_type, "data": message}) + "\n").encode()
WireFrame(msg_type, message) ==
    Dumps(PyDict(<<PyPair("type", PyStr(msg_type)), PyPair("data", message)>>)) \o <<NL>>


(***************************************************************************)
(* The ring.  Three nodes; node n forwards to NextOf(n) and falls back to  *)
(* OtherOf(n).  The addresses are the command-line arguments of each       *)
(* process; layout says whether the nodes differ in host, in port or in    *)
(* both.                                                                   *)
(***************************************************************************)
RingSize == 3
Nodes == 1..RingSize
NextOf(n) == (n % RingSize) + 1
OtherOf(n) == ((n + 1) % RingSize) + 1
Layouts == {"hosts", "ports", "both"}
Addr(lay, n) ==
    [host |-> IF lay = "ports" THEN 0 ELSE n, port |-> IF lay = "hosts" THEN 0 ELSE n]
NodeAt(lay, a) == CHOOSE n \in Nodes : Addr(lay, n) = a

Circulation == {"sensor_data", "continue"}
Readings == {0, 1}

VARIABLES
    layout,     \* how the three addresses differ
    sensors,    \* per node: the sensors were initialised in __init__
    status,     \* per node: "built", "running", "stopped", "crashed", or "external"
    numpis,     \* self.numpis
    plotter,    \* self.plotter
    round,      \* self.round
    is_alone,   \* self.is_alone
    db_conn,    \* self.db_conn: "none" or "open"
    inbox,      \* per node: the frames received on accepted sessions, not yet serviced
    faults,     \* how many faults the environment has produced (history)
    lossy,      \* some connect-and-send has failed (history)
    tried_db,   \* per node: a handler has called connect_db (history)
    last,       \* what the last step did (history)
    codec       \* the message, frame and decoded message of the codec on its own
vars ==
    <<layout, sensors, status, numpis, plotter, round, is_alone, db_conn, inbox, faults, lossy,
      tried_db, last, codec>>

(***************************************************************************)
(* The node's methods.  self is the object's fields plus what the call     *)
(* has done so far: out, the send attempts; calls, the uses of the         *)
(* database and of the plot; agg, the data handed to plot_data; crashed,   *)
(* an exception nothing catches.                                           *)
(***************************************************************************)
Self(n) ==
    [pi_id |-> n, next |-> Addr(layout, NextOf(n)), other |-> Addr(layout, OtherOf(n)),
     numpis |-> numpis[n], plotter |-> plotter[n], round |-> round[n],
     is_alone |-> is_alone[n], db_conn |-> db_conn[n], sensors |-> sensors[n],
     out |-> <<>>, calls |-> <<>>, agg |-> PyNone, crashed |-> FALSE]

\* What the environment decides during one call: the outcome of each connect-and-send,
\* of the database connect, write and close, and what the sensors read.
Envs ==
    [ok1 : BOOLEAN, ok2 : BOOLEAN, ok3 : BOOLEAN, db_ok : BOOLEAN, wr_ok : BOOLEAN,
     close_ok : BOOLEAN, reading : Readings]

\* connect_db: self.db_conn is the new connection, or None after three failures.
connect_db(self, env) ==
    [self EXCEPT !.db_conn = IF env.db_ok THEN "open" ELSE "none",
                 !.calls = Append(@, IF env.db_ok THEN "connect_ok" ELSE "connect_fail")]

\* disconnect_db: close and forget the connection; a failing close keeps the handle.
disconnect_db(self, env) ==
    IF self.db_conn = "none" THEN self
    ELSE IF env.close_ok
         THEN [self EXCEPT !.db_conn = "none", !.calls = Append(@, "close_ok")]
         ELSE [self EXCEPT !.calls = Append(@, "close_fail")]

Measurements == <<"temperature", "humidity", "soil_moisture", "soil_temperature", "wind_speed">>

\* collect_sensor_data: the five readings, all 0.0 when the sensors are absent or fail.
collect_sensor_data(self, env) ==
    PyDict([i \in 1..Len(Measurements) |->
               PyPair(Measurements[i], PyNum(IF self.sensors THEN env.reading ELSE 0))])

\* {"pi_id": self.pi_id, "measurements": my_data}
OwnRecord(self, env) ==
    PyDict(<<PyPair("pi_id", PyNum(self.pi_id)), PyPair("measurements", collect_sensor_data(self, env))>>)

\* One connect-and-send of send_message: hop is "given" for the address passed in,
\* "other" for the second try; alone is self.is_alone at the time of the attempt.
Attempt(self, message, msg_type, to, pi_id, ok, hop) ==
    [to |-> to, type |-> msg_type, message |-> message, frame |-> WireFrame(msg_type, message),
     target |-> pi_id, ok |-> ok, hop |-> hop, alone |-> self.is_alone]

\* Giving up that raises the flag and leaves the count.
GoAlone_keeps_count(self, msg_type, env) ==
    IF msg_type \in Circulation
    THEN disconnect_db([self EXCEPT !.is_alone = TRUE], env)
    ELSE self

\* The node gives up on a circulation message: it is alone.
GoAlone(self, msg_type, env) ==
    IF msg_type \in Circulation
    THEN disconnect_db([self EXCEPT !.is_alone = TRUE, !.numpis = 1], env)
    ELSE self

\* The condition with "and" for "or": the other Pi is tried only if host and port both differ.
TriesOther_both(self, to) == to.host # self.other.host /\ to.port # self.other.port

\* The condition under which send_message tries the other Pi after a failure.
TriesOther(self, to) == to.host # self.other.host \/ to.port # self.other.port

\* send_message(message, msg_type, next_host, next_port, pi_id); ok1 and ok2 are the
\* outcomes of the connect-and-send to the given address and to the other Pi.
send_message(self, message, msg_type, to, pi_id, ok1, ok2, env) ==
    IF self.is_alone /\ msg_type \in Circulation THEN self
    ELSE LET s1 == [self EXCEPT !.out = Append(@, Attempt(self, message, msg_type, to, pi_id, ok1, "given"))]
         IN  IF ok1 THEN s1
             ELSE IF TriesOther(self, to)
                  THEN LET s2 == [s1 EXCEPT !.out =
                                     Append(@, Attempt(self, message, msg_type, self.other, pi_id, ok2, "other"))]
                       IN  IF ok2 THEN s2 ELSE GoAlone(s2, msg_type, env)
                  ELSE GoAlone(s1, msg_type, env)

\* d["pi_id"]: d["measurements"] raises unless d is a dict with both keys and the id is hashable.
RecordRaises(d) ==
    \/ d.kind # "dict"
    \/ ~HasKey(d, "pi_id")
    \/ ~HasKey(d, "measurements")
    \/ DictGet(d, "pi_id", PyNone).kind \in {"list", "dict"}

\* pi_data.get(k, {}) of pi_data = {d["pi_id"]: d["measurements"] for d in all_data}
PiData(all_data, k) ==
    LET hits == {i \in 1..Len(all_data.vals) : DictGet(all_data.vals[i], "pi_id", PyNone) = PyNum(k)}
    IN  IF hits = {} THEN PyDict(<<>>)
        ELSE DictGet(all_data.vals[CHOOSE i \in hits : \A j \in hits : j <= i], "measurements", PyNone)

Plotted == {"temperature", "humidity", "soil_moisture", "wind_speed"}

\* The sums and averages of the plotting logic raise unless every plotted value is a number.
PlotRaises(all_data) ==
    \E k \in Nodes :
        \/ PiData(all_data, k).kind # "dict"
        \/ \E f \in Plotted : DictGet(PiData(all_data, k), f, PyNum(0)).kind # "num"

\* The inserts of plot_data: any exception is caught and logged.
InsertFails(all_data, env) ==
    \/ ~env.wr_ok
    \/ \E k \in Nodes : PiData(all_data, k).kind # "dict"

\* A plot_data in which a missing connection or a failed insert is not caught.
plot_data_strict(self, all_data, env) ==
    IF Len(all_data.vals) < 1 THEN self
    ELSE IF \E i \in 1..Len(all_data.vals) : RecordRaises(all_data.vals[i])
    THEN [self EXCEPT !.crashed = TRUE]
    ELSE IF self.pi_id = self.plotter /\ self.numpis > 1
            /\ (self.db_conn = "none" \/ InsertFails(all_data, env))
    THEN [self EXCEPT !.crashed = TRUE,
                      !.calls = Append(@, IF self.db_conn = "none" THEN "write_skip"
                                          ELSE "write_fail")]
    ELSE LET s1 == IF self.pi_id = self.plotter /\ self.numpis > 1
                   THEN [self EXCEPT !.calls = Append(@, "write_ok")]
                   ELSE self
         IN  IF PlotRaises(all_data)
             THEN [s1 EXCEPT !.crashed = TRUE]
             ELSE [s1 EXCEPT !.agg = all_data, !.calls = Append(@, "plot")]

\* plot_data(all_data)
plot_data(self, all_data, env) ==
    IF Len(all_data.vals) < 1 THEN self
    ELSE IF \E i \in 1..Len(all_data.vals) : RecordRaises(all_data.vals[i])
    THEN [self EXCEPT !.crashed = TRUE]
    ELSE LET s1 == IF self.pi_id = self.plotter /\ self.numpis > 1
                   THEN [self EXCEPT !.calls = Append(@,
                            IF self.db_conn = "none" THEN "write_skip"
                            ELSE IF InsertFails(all_data, env) THEN "write_fail"
                            ELSE "write_ok")]
                   ELSE self
         IN  IF PlotRaises(all_data)
             THEN [s1 EXCEPT !.crashed = TRUE]
             ELSE [s1 EXCEPT !.agg = all_data, !.calls = Append(@, "plot")]

\* A sensor_data handler that puts its own record first.
handle_sensor_data_own_first(self, msg_data, env) ==
    LET s1 == [self EXCEPT !.is_alone = FALSE]
        got == DictGet(msg_data, "data", PyList(<<>>))
        received_data == IF got.kind = "dict" /\ HasKey(got, "data")
                         THEN DictGet(got, "data", PyNone) ELSE got
        all_data == PyList(<<OwnRecord(self, env)>> \o
                           (IF received_data.kind # "list" THEN <<>> ELSE received_data.vals))
    IN  IF s1.pi_id = s1.plotter /\ s1.numpis > 1
        THEN LET s2 == plot_data([s1 EXCEPT !.round = @ + 1], all_data, env)
             IN  IF s2.crashed THEN s2
                 ELSE send_message(s2, PyNone, "continue", s2.next, (s2.pi_id % 3) + 1,
                                   env.ok1, env.ok2, env)
        ELSE IF s1.numpis > 1
        THEN send_message(s1, all_data, "sensor_data", s1.next, (s1.pi_id % 3) + 1,
                          env.ok1, env.ok2, env)
        ELSE [s1 EXCEPT !.is_alone = TRUE]

\* A sensor_data handler whose plotter hands the aggregate on with its continue.
handle_sensor_data_relay(self, msg_data, env) ==
    LET s1 == [self EXCEPT !.is_alone = FALSE]
        got == DictGet(msg_data, "data", PyList(<<>>))
        received_data == IF got.kind = "dict" /\ HasKey(got, "data")
                         THEN DictGet(got, "data", PyNone) ELSE got
        all_data == PyList(Append(IF received_data.kind # "list" THEN <<>> ELSE received_data.vals,
                                  OwnRecord(self, env)))
    IN  IF s1.pi_id = s1.plotter /\ s1.numpis > 1
        THEN LET s2 == plot_data([s1 EXCEPT !.round = @ + 1], all_data, env)
             IN  IF s2.crashed THEN s2
                 ELSE send_message(s2, all_data, "continue", s2.next, (s2.pi_id % 3) + 1,
                                   env.ok1, env.ok2, env)
        ELSE IF s1.numpis > 1
        THEN send_message(s1, all_data, "sensor_data", s1.next, (s1.pi_id % 3) + 1,
                          env.ok1, env.ok2, env)
        ELSE [s1 EXCEPT !.is_alone = TRUE]

\* A sensor_data handler that forwards its own record only, dropping what it received.
handle_sensor_data_fresh(self, msg_data, env) ==
    LET s1 == [self EXCEPT !.is_alone = FALSE]
        all_data == PyList(<<OwnRecord(self, env)>>)
    IN  IF s1.pi_id = s1.plotter /\ s1.numpis > 1
        THEN LET s2 == plot_data([s1 EXCEPT !.round = @ + 1], all_data, env)
             IN  IF s2.crashed THEN s2
                 ELSE send_message(s2, PyNone, "continue", s2.next, (s2.pi_id % 3) + 1,
                                   env.ok1, env.ok2, env)
        ELSE IF s1.numpis > 1
        THEN send_message(s1, all_data, "sensor_data", s1.next, (s1.pi_id % 3) + 1,
                          env.ok1, env.ok2, env)
        ELSE [s1 EXCEPT !.is_alone = TRUE]

\* A sensor_data handler that leaves a node counting one Pi out of alone mode.
handle_sensor_data_wakes(self, msg_data, env) ==
    LET s1 == [self EXCEPT !.is_alone = FALSE]
        got == DictGet(msg_data, "data", PyList(<<>>))
        received_data == IF got.kind = "dict" /\ HasKey(got, "data")
                         THEN DictGet(got, "data", PyNone) ELSE got
        all_data == PyList(Append(IF received_data.kind # "list" THEN <<>> ELSE received_data.vals,
                                  OwnRecord(self, env)))
    IN  IF s1.pi_id = s1.plotter /\ s1.numpis > 1
        THEN LET s2 == plot_data([s1 EXCEPT !.round = @ + 1], all_data, env)
             IN  IF s2.crashed THEN s2
                 ELSE send_message(s2, PyNone, "continue", s2.next, (s2.pi_id % 3) + 1,
                                   env.ok1, env.ok2, env)
        ELSE IF s1.numpis > 1
        THEN send_message(s1, all_data, "sensor_data", s1.next, (s1.pi_id % 3) + 1,
                          env.ok1, env.ok2, env)
        ELSE s1

\* handle_message, type "sensor_data"
handle_sensor_data(self, msg_data, env) ==
    LET s1 == [self EXCEPT !.is_alone = FALSE]
        got == DictGet(msg_data, "data", PyList(<<>>))
        received_data == IF got.kind = "dict" /\ HasKey(got, "data")
                         THEN DictGet(got, "data", PyNone) ELSE got
        all_data == PyList(Append(IF received_data.kind # "list" THEN <<>> ELSE received_data.vals,
                                  OwnRecord(self, env)))
    IN  IF s1.pi_id = s1.plotter /\ s1.numpis > 1
        THEN LET s2 == plot_data([s1 EXCEPT !.round = @ + 1], all_data, env)
             IN  IF s2.crashed THEN s2
                 ELSE send_message(s2, PyNone, "continue", s2.next, (s2.pi_id % 3) + 1,
                                   env.ok1, env.ok2, env)
        ELSE IF s1.numpis > 1
        THEN send_message(s1, all_data, "sensor_data", s1.next, (s1.pi_id % 3) + 1,
                          env.ok1, env.ok2, env)
        ELSE [s1 EXCEPT !.is_alone = TRUE]

\* A kill handler without the wrap: the plotter after 1 is 0.
handle_kill_unwrapped(self, env) ==
    IF self.numpis > 1
    THEN LET s1 == [self EXCEPT !.numpis = @ - 1, !.plotter = @ - 1]
         IN  IF s1.pi_id = s1.plotter /\ s1.numpis > 1 THEN connect_db(s1, env) ELSE s1
    ELSE disconnect_db([self EXCEPT !.numpis = 1, !.is_alone = TRUE], env)

\* A kill handler in which the new plotter does not connect to the database.
handle_kill_no_connect(self, env) ==
    IF self.numpis > 1
    THEN LET p1 == IF self.plotter > 1 THEN self.plotter - 1 ELSE 3
         IN  [self EXCEPT !.numpis = @ - 1, !.plotter = IF p1 <= 0 THEN 3 ELSE p1]
    ELSE disconnect_db([self EXCEPT !.numpis = 1, !.is_alone = TRUE], env)

\* handle_message, type "kill"
handle_kill(self, env) ==
    IF self.numpis > 1
    THEN LET p1 == IF self.plotter > 1 THEN self.plotter - 1 ELSE 3
             s1 == [self EXCEPT !.numpis = @ - 1, !.plotter = IF p1 <= 0 THEN 3 ELSE p1]
         IN  IF s1.pi_id = s1.plotter /\ s1.numpis > 1 THEN connect_db(s1, env) ELSE s1
    ELSE disconnect_db([self EXCEPT !.numpis = 1, !.is_alone = TRUE], env)

\* handle_message, type "gone"
handle_gone(self, env) ==
    LET s1 == IF self.numpis > 1 THEN [self EXCEPT !.numpis = @ - 1] ELSE self
    IN  IF s1.numpis <= 1
        THEN disconnect_db([s1 EXCEPT !.is_alone = TRUE], env)
        ELSE LET s2 == send_message([s1 EXCEPT !.round = @ + 1],
                                    PyList(<<OwnRecord(s1, env)>>), "sensor_data", s1.next,
                                    (s1.pi_id + 1) % 3, env.ok1, env.ok2, env)
             IN  IF s2.pi_id = s2.plotter /\ s2.numpis > 1 THEN connect_db(s2, env) ELSE s2

\* A oneless handler that restarts the round as gone does.
handle_oneless_restarts(self, env) ==
    LET s1 == IF self.numpis > 1 THEN [self EXCEPT !.numpis = @ - 1] ELSE self
    IN  IF s1.numpis <= 1
        THEN disconnect_db([s1 EXCEPT !.is_alone = TRUE], env)
        ELSE LET s2 == send_message([s1 EXCEPT !.round = @ + 1],
                                    PyList(<<OwnRecord(s1, env)>>), "sensor_data", s1.next,
                                    (s1.pi_id + 1) % 3, env.ok1, env.ok2, env)
             IN  IF s2.pi_id = s2.plotter /\ s2.numpis > 1 THEN connect_db(s2, env) ELSE s2

\* A oneless handler that does not count the departed Pi out.
handle_oneless_keeps_count(self, env) ==
    IF self.numpis <= 1
    THEN disconnect_db([self EXCEPT !.is_alone = TRUE], env)
    ELSE IF self.pi_id = self.plotter /\ self.numpis > 1 THEN connect_db(self, env) ELSE self

\* handle_message, type "oneless"
handle_oneless(self, env) ==
    LET s1 == IF self.numpis > 1 THEN [self EXCEPT !.numpis = @ - 1] ELSE self
    IN  IF s1.numpis <= 1
        THEN disconnect_db([s1 EXCEPT !.is_alone = TRUE], env)
        ELSE IF s1.pi_id = s1.plotter /\ s1.numpis > 1 THEN connect_db(s1, env) ELSE s1

\* A continue handler that sends also when the node counts itself only.
handle_continue_always(self, env) ==
    LET s1 == [self EXCEPT !.is_alone = FALSE, !.round = @ + 1]
    IN  IF s1.numpis >= 1
        THEN send_message(s1, PyList(<<OwnRecord(s1, env)>>), "sensor_data", s1.next,
                          (s1.pi_id + 1) % 3, env.ok1, env.ok2, env)
        ELSE [s1 EXCEPT !.is_alone = TRUE]

\* A continue handler that counts the round down.
handle_continue_down(self, env) ==
    LET s1 == [self EXCEPT !.is_alone = FALSE, !.round = @ - 1]
    IN  IF s1.numpis > 1
        THEN send_message(s1, PyList(<<OwnRecord(s1, env)>>), "sensor_data", s1.next,
                          (s1.pi_id + 1) % 3, env.ok1, env.ok2, env)
        ELSE [s1 EXCEPT !.is_alone = TRUE]

\* handle_message, type "continue"
handle_continue(self, env) ==
    LET s1 == [self EXCEPT !.is_alone = FALSE, !.round = @ + 1]
    IN  IF s1.numpis > 1
        THEN send_message(s1, PyList(<<OwnRecord(s1, env)>>), "sensor_data", s1.next,
                          (s1.pi_id + 1) % 3, env.ok1, env.ok2, env)
        ELSE [s1 EXCEPT !.is_alone = TRUE]

\* A reconnect handler that connects to the database whoever the plotter is.
handle_reconnect_any(self, env) ==
    LET s1 == [self EXCEPT !.is_alone = FALSE, !.numpis = @ + 1]
        s2 == connect_db(s1, env)
    IN  send_message(s2, PyList(<<OwnRecord(s2, env)>>), "sensor_data", s2.next,
                     (s2.pi_id % 3) + 1, env.ok1, env.ok2, env)

\* handle_message, type "reconnect"
handle_reconnect(self, env) ==
    LET s1 == [self EXCEPT !.is_alone = FALSE, !.numpis = @ + 1]
        s2 == IF s1.pi_id = s1.plotter /\ s1.numpis > 1 THEN connect_db(s1, env) ELSE s1
    IN  send_message(s2, PyList(<<OwnRecord(s2, env)>>), "sensor_data", s2.next,
                     (s2.pi_id % 3) + 1, env.ok1, env.ok2, env)

\* handle_message(message)
handle_message(self, message, env) ==
    LET r == Loads(message)
        msg_data == r.val
        type == DictGet(msg_data, "type", PyNone)
    IN  IF ~r.ok THEN self
        ELSE IF msg_data.kind # "dict" THEN [self EXCEPT !.crashed = TRUE]
        ELSE IF type = PyStr("sensor_data") THEN handle_sensor_data(self, msg_data, env)
        ELSE IF type = PyStr("kill") THEN handle_kill(self, env)
        ELSE IF type = PyStr("gone") THEN handle_gone(self, env)
        ELSE IF type = PyStr("oneless") THEN handle_oneless(self, env)
        ELSE IF type = PyStr("continue") THEN handle_continue(self, env)
        ELSE IF type = PyStr("reconnect") THEN handle_reconnect(self, env)
        ELSE self

\* service_connection, on a readable session whose recv returned inb.
service_connection(self, inb, env) ==
    IF ~HasDelimiter(inb) THEN self
    ELSE IF DecodeRaises(inb) THEN [self EXCEPT !.crashed = TRUE]
    ELSE handle_message(self, Strip(inb), env)

\* service_connection when sock.recv raises (the peer reset the session, the read timed
\* out): the call is in no try block.
recv_raises(self) == [self EXCEPT !.crashed = TRUE]

\* run(), up to the event loop: node 1 starts the ring.
run_start(self, env) ==
    IF self.pi_id = 1 /\ self.numpis > 1
    THEN send_message(self, PyList(<<OwnRecord(self, env)>>), "sensor_data", self.next, 2,
                      env.ok1, env.ok2, env)
    ELSE self

\* An alone check that takes the node out of alone mode to try again.
alone_check_retry(self) == [self EXCEPT !.is_alone = FALSE]

\* run(), the alone check of the event loop: it logs and resets the timer.
alone_check(self) == self

\* Departure notices that take node 3, the first plotter, for the plotter.
run_interrupt_first_plotter(self, env) ==
    IF self.numpis > 1
    THEN IF self.pi_id = 3
         THEN send_message(send_message(self, PyStr("Plotter killed"), "kill", self.next,
                                        self.pi_id, env.ok1, env.ok2, env),
                           PyStr("Plotter killed"), "kill", self.other, self.pi_id,
                           env.ok3, env.ok3, env)
         ELSE send_message(send_message(self, PyStr("Pi killed"), "gone", self.next,
                                        self.pi_id, env.ok1, env.ok2, env),
                           PyStr("Pi killed"), "oneless", self.other, self.pi_id,
                           env.ok3, env.ok3, env)
    ELSE self

\* run(), on KeyboardInterrupt: the departure notices.
run_interrupt(self, env) ==
    IF self.numpis > 1
    THEN IF self.pi_id = self.plotter
         THEN send_message(send_message(self, PyStr("Plotter killed"), "kill", self.next,
                                        self.pi_id, env.ok1, env.ok2, env),
                           PyStr("Plotter killed"), "kill", self.other, self.pi_id,
                           env.ok3, env.ok3, env)
         ELSE send_message(send_message(self, PyStr("Pi killed"), "gone", self.next,
                                        self.pi_id, env.ok1, env.ok2, env),
                           PyStr("Pi killed"), "oneless", self.other, self.pi_id,
                           env.ok3, env.ok3, env)
    ELSE self

(***************************************************************************)
(* The system: the three processes and the frames between them.            *)
(***************************************************************************)
\* The fields of node n a step can change, as they are before the step.
Fields(n) ==
    [numpis |-> numpis[n], plotter |-> plotter[n], round |-> round[n],
     is_alone |-> is_alone[n], db_conn |-> db_conn[n]]

\* A connect to node m succeeds only while m listens; an external peer is the environment's.
Accepts(m) == status[m] \in {"running", "external"}

\* The outcomes a call of node n is first tried with: every connect to a listening
\* peer succeeds, the database works, the sensors read 0.
Calm(n) ==
    [ok1 |-> Accepts(NextOf(n)), ok2 |-> Accepts(OtherOf(n)), ok3 |-> Accepts(OtherOf(n)), db_ok |-> TRUE,
     wr_ok |-> TRUE, close_ok |-> TRUE, reading |-> 0]

\* The outcomes of a call that asks the environment for nothing.
Quiet ==
    [ok1 |-> FALSE, ok2 |-> FALSE, ok3 |-> FALSE, db_ok |-> TRUE, wr_ok |-> TRUE,
     close_ok |-> TRUE, reading |-> 0]

Called(s, what) == \E i \in 1..Len(s.calls) : s.calls[i] = what

\* The outcomes the environment can give a call of node n that ends in s0 under Calm(n).
\* An outcome the call cannot ask for is fixed, so that each behaviour is taken once.
EnvsOf(n, s0) ==
    LET May(c) == IF c THEN BOOLEAN ELSE {FALSE}
        Maynt(c) == IF c THEN BOOLEAN ELSE {TRUE}
        links == {o \in [a : May(Accepts(NextOf(n)) /\ s0.out # <<>>),
                         b : May(Accepts(OtherOf(n)) /\ s0.out # <<>>)] : ~(o.a /\ o.b)}
    IN  UNION {{[ok1 |-> o.a, ok2 |-> o.b, ok3 |-> o3, db_ok |-> d, wr_ok |-> w,
                 close_ok |-> c, reading |-> r] :
                   o3 \in May(Accepts(OtherOf(n)) /\ Len(s0.out) >= 2),
                   d \in Maynt(Called(s0, "connect_ok")),
                   w \in Maynt(Called(s0, "write_ok")),
                   c \in Maynt(db_conn[n] = "open"
                               /\ (Called(s0, "close_ok") \/ (~o.a /\ ~o.b /\ s0.out # <<>>))),
                   r \in IF sensors[n] /\ (s0.out # <<>> \/ s0.agg # PyNone)
                         THEN Readings ELSE {0}} : o \in links}

\* The call that ended in s asked for every outcome in which e differs from the fixed ones.
Asked(s, e, kind) ==
    /\ e.ok1 => Len(s.out) >= 1
    /\ e.ok2 => ~e.ok1 /\ Len(s.out) >= (IF kind = "interrupt" THEN 3 ELSE 2)
    /\ e.ok3 => kind = "interrupt" /\ Len(s.out) >= 2
    /\ ~e.db_ok => Called(s, "connect_fail")
    /\ ~e.wr_ok => Called(s, "write_fail")
    /\ ~e.close_ok => Called(s, "close_fail")
    /\ e.reading # 0 => \/ s.agg # PyNone
                        \/ \E i \in 1..Len(s.out) : s.out[i].message.kind = "list"

RECURSIVE Arrivals(_, _, _)
\* The frames the successful attempts out[i..] leave at node m.
Arrivals(out, i, m) ==
    IF i > Len(out) THEN EmptyBag
    ELSE (IF out[i].ok /\ NodeAt(layout, out[i].to) = m THEN SetToBag({out[i].frame}) ELSE EmptyBag)
         (+) Arrivals(out, i + 1, m)

\* The faults of a call: the attempts that failed although the node addressed is
\* listening, and the failures of the database.
Faults(s) ==
    Cardinality({i \in 1..Len(s.out) :
                    ~s.out[i].ok /\ status[NodeAt(layout, s.out[i].to)] = "running"})
    + Cardinality({i \in 1..Len(s.calls) :
                      s.calls[i] \in {"connect_fail", "write_fail", "close_fail"}})

\* All three processes are in the model: the histories are those of the ring.
Ring == \A m \in Nodes : status[m] # "external"

\* The caps of the model on what a step may produce.
WithinBounds(s) ==
    /\ s.round <= MaxRound
    /\ s.numpis <= MaxNumpis
    /\ \A i \in 1..Len(s.out) :
          s.out[i].message.kind = "list" => Len(s.out[i].message.vals) <= MaxPayload
    /\ Ring => faults + Faults(s) <= MaxFaults

\* Node n ends a call in s: its fields, its status, the frames it sent, the history.
\* A process that exits (interrupt or uncaught exception) closes its database
\* connection in run()'s finally clause and drops the sessions it had accepted.
Step(n, s, env, kind, frame, taken) ==
    LET exits == s.crashed \/ kind = "interrupt"
    IN  /\ WithinBounds(s)
        /\ Asked(s, env, kind)
        /\ numpis' = [numpis EXCEPT ![n] = s.numpis]
        /\ plotter' = [plotter EXCEPT ![n] = s.plotter]
        /\ round' = [round EXCEPT ![n] = s.round]
        /\ is_alone' = [is_alone EXCEPT ![n] = s.is_alone]
        /\ db_conn' = [db_conn EXCEPT ![n] = IF exits THEN "none" ELSE s.db_conn]
        /\ status' = [status EXCEPT ![n] = IF s.crashed THEN "crashed"
                                           ELSE IF kind = "interrupt" THEN "stopped"
                                           ELSE "running"]
        /\ inbox' = [m \in Nodes |->
                        IF status[m] = "external" THEN EmptyBag
                        ELSE IF m = n /\ exits THEN EmptyBag
                        ELSE (inbox[m] (-) (IF m = n THEN taken ELSE EmptyBag))
                             (+) Arrivals(s.out, 1, m)]
        /\ last' = [kind |-> kind, node |-> n, frame |-> frame, pre |-> Fields(n),
                    out |-> s.out, calls |-> s.calls, agg |-> s.agg, crashed |-> s.crashed]
        /\ faults' = IF Ring THEN faults + Faults(s) ELSE faults
        /\ lossy' = (lossy \/ (Ring /\ \E i \in 1..Len(s.out) : ~s.out[i].ok))
        /\ tried_db' = [tried_db EXCEPT ![n] =
                           @ \/ (Ring /\ (Called(s, "connect_ok") \/ Called(s, "connect_fail")))]
        /\ UNCHANGED <<layout, sensors>>

\* A call of node n in which no session buffer of the model is involved.
Commit(n, s, env, kind, frame, taken) == Step(n, s, env, kind, frame, taken) /\ UNCHANGED codec

\* python3 token-ring.py ...: run() starts listening; node 1 starts the ring.
Start(n) ==
    /\ status[n] = "built"
    /\ \E s0 \in {run_start(Self(n), Calm(n))} : \E env \in EnvsOf(n, s0) :
          \E s \in {IF env = Calm(n) THEN s0 ELSE run_start(Self(n), env)} : Commit(n, s, env, "start", <<>>, EmptyBag)

\* The event loop services a session on which a frame has arrived.
Deliver(n) ==
    /\ status[n] = "running"
    /\ \E f \in BagToSet(inbox[n]) :
          \E s0 \in {service_connection(Self(n), f, Calm(n))} : \E env \in EnvsOf(n, s0) :
             \E s \in {IF env = Calm(n) THEN s0 ELSE service_connection(Self(n), f, env)} :
                Commit(n, s, env, "deliver", f, SetToBag({f}))

\* The event loop finds the node alone for longer than connection_timeout.
AloneCheck(n) ==
    /\ status[n] = "running"
    /\ is_alone[n]
    /\ \E s \in {alone_check(Self(n))} : Commit(n, s, Quiet, "alone_check", <<>>, EmptyBag)

\* The operator interrupts the process (KeyboardInterrupt in the event loop).
Shutdown(n) ==
    /\ status[n] = "running"
    /\ \E s0 \in {run_interrupt(Self(n), Calm(n))} : \E env \in EnvsOf(n, s0) :
          \E s \in {IF env = Calm(n) THEN s0 ELSE run_interrupt(Self(n), env)} : Commit(n, s, env, "interrupt", <<>>, EmptyBag)

\* TokenRingNode.__init__ of the three processes: the initial plotter connects to the database.
InitFields(lays, sens, st) ==
    /\ layout \in lays
    /\ sensors \in sens
    /\ status = st
    /\ numpis = [n \in Nodes |-> 3]
    /\ plotter = [n \in Nodes |-> 3]
    /\ round = [n \in Nodes |-> 0]
    /\ is_alone = [n \in Nodes |-> FALSE]
    /\ db_conn \in [Nodes -> {"none", "open"}]
    /\ \A n \in Nodes : (n # 3 \/ st[n] = "external") => db_conn[n] = "none"
    /\ inbox = [n \in Nodes |-> EmptyBag]
    /\ faults = IF db_conn[3] = "none" /\ (\A m \in Nodes : st[m] # "external") THEN 1 ELSE 0
    /\ lossy = FALSE
    /\ tried_db = [n \in Nodes |-> FALSE]
    /\ last = [kind |-> "init", node |-> 3, frame |-> <<>>,
               pre |-> [numpis |-> 3, plotter |-> 3, round |-> 0, is_alone |-> FALSE,
                        db_conn |-> "none"],
               out |-> <<>>, calls |-> <<>>, agg |-> PyNone, crashed |-> FALSE]

\* The ring: the three processes are constructed, none has started listening.
Init ==
    /\ InitFields({"hosts"}, {[n \in Nodes |-> FALSE]}, [n \in Nodes |-> "built"])
    /\ codec = [stage |-> "off"]

Next == \E n \in Nodes : Start(n) \/ Deliver(n) \/ AloneCheck(n) \/ Shutdown(n)

Spec == Init /\ [][Next]_vars

(***************************************************************************)
(* One node on its own.  The two peers are the environment's: a connect to *)
(* them succeeds or fails as the environment likes, what is sent to them   *)
(* is gone, and any frame at all can arrive on an accepted session.        *)
(***************************************************************************)
\* {"pi_id": k, "measurements": {...}} as a node k whose sensors read r builds it.
RecordOf(k, r) == OwnRecord([pi_id |-> k, sensors |-> TRUE], [reading |-> r])

\* The frames send_message produces, as a peer sends them.
PeerFrames ==
    {WireFrame("sensor_data", PyList(<<>>)),
     WireFrame("sensor_data", PyList(<<RecordOf(1, 0)>>)),
     WireFrame("sensor_data", PyList(<<RecordOf(1, 1), RecordOf(2, 0)>>)),
     WireFrame("continue", PyNone),
     WireFrame("kill", PyStr("Plotter killed")),
     WireFrame("gone", PyStr("Pi killed")),
     WireFrame("oneless", PyStr("Pi killed")),
     WireFrame("reconnect", PyNone)}

\* Frames no send_message produces.
StrayFrames ==
    {<<Tok("bad8"), NL>>,
     <<Tok("junk"), NL>>,
     <<Tok("{"), StrTok("type"), Tok(":"), NL>>,
     <<Tok("["), NumTok(1), Tok("]"), NL>>,
     <<NumTok(5), NL>>,
     <<Tok("{"), Tok("}"), NL>>,
     WireFrame("bogus", PyNone),
     WireFrame("sensor_data", PyDict(<<PyPair("data", PyList(<<RecordOf(2, 0)>>))>>)),
     WireFrame("sensor_data", PyList(<<PyDict(<<PyPair("measurements", PyDict(<<>>))>>)>>)),
     WireFrame("sensor_data", PyList(<<PyDict(<<PyPair("pi_id", PyNum(1)),
                                                PyPair("measurements", PyNum(1))>>)>>)),
     Dumps(PyDict(<<PyPair("type", PyStr("kill"))>>))}

InjectFrames == PeerFrames \cup StrayFrames

\* A frame arrives on a session of node n from outside the model and is serviced.
Inject(n) ==
    /\ status[n] = "running"
    /\ \E f \in InjectFrames :
          \E s0 \in {service_connection(Self(n), f, Calm(n))} : \E env \in EnvsOf(n, s0) :
             \E s \in {IF env = Calm(n) THEN s0 ELSE service_connection(Self(n), f, env)} :
                Commit(n, s, env, "deliver", f, EmptyBag)

\* The deployments a node is tried in: each node once, each way of telling the addresses
\* apart once.  A handler reads the addresses only to compare them in send_message,
\* which does not read pi_id.
Deployments ==
    {[node |-> 1, layout |-> "hosts"], [node |-> 2, layout |-> "ports"],
     [node |-> 3, layout |-> "both"]}

\* A session of node n is readable and its recv raises.
RecvFails(n) ==
    /\ status[n] = "running"
    /\ \E s \in {recv_raises(Self(n))} : Commit(n, s, Quiet, "recv_error", <<>>, EmptyBag)

\* One node is constructed, without sensors; its peers are external.
InitNode ==
    /\ \E d \in Deployments :
          InitFields({d.layout}, {[m \in Nodes |-> FALSE]},
                     [m \in Nodes |-> IF m = d.node THEN "built" ELSE "external"])
    /\ codec = [stage |-> "off"]

NextNode ==
    \E n \in Nodes : Start(n) \/ Inject(n) \/ RecvFails(n) \/ AloneCheck(n) \/ Shutdown(n)

SpecNode == InitNode /\ [][NextNode]_vars

(***************************************************************************)
(* The codec on its own: a message is encoded as send_message encodes it   *)
(* and the frame is decoded as service_connection and handle_message       *)
(* decode it.                                                              *)
(***************************************************************************)
\* The longest payload the codec is tried with.
MaxRecords == 2

MsgTypes == {"sensor_data", "continue", "kill", "gone", "oneless", "reconnect"}

RECURSIVE SeqsUpTo(_, _)
\* The sequences over S of length at most k.
SeqsUpTo(S, k) ==
    IF k = 0 THEN {<<>>}
    ELSE LET shorter == SeqsUpTo(S, k - 1)
         IN  shorter \cup {Append(q, x) : q \in shorter, x \in S}

\* What send_message is called with as message: a list of records, None, or a notice's text.
Payloads ==
    {PyList(q) : q \in SeqsUpTo({RecordOf(k, r) : k \in Nodes, r \in Readings}, MaxRecords)}
    \cup {PyNone, PyStr("Plotter killed"), PyStr("Pi killed")}

\* What send_message is called with as pi_id: (id % 3) + 1, (id + 1) % 3 or the node's own id.
Targets == 0..RingSize

\* data.inb.decode().strip(), json.loads, msg_data.get("type"), msg_data.get("data", []):
\* what the receiver has of a message.  extra holds whatever else the object carries.
DecodeMessage(inb) ==
    IF ~HasDelimiter(inb) \/ DecodeRaises(inb) THEN [ok |-> FALSE]
    ELSE LET r == Loads(Strip(inb))
         IN  IF ~r.ok \/ r.val.kind # "dict" THEN [ok |-> FALSE]
             ELSE [ok |-> TRUE,
                   type |-> DictGet(r.val, "type", PyNone),
                   data |-> DictGet(r.val, "data", PyList(<<>>)),
                   extra |-> {r.val.vals[i].vals[1] :
                                 i \in {j \in 1..Len(r.val.vals) :
                                           r.val.vals[j].str \notin {"type", "data"}}}]

\* send_message builds the frame of the message.
Encode ==
    /\ codec.stage = "message"
    /\ codec' = [codec EXCEPT !.stage = "frame", !.frame = WireFrame(codec.type, codec.payload)]
    /\ UNCHANGED <<layout, sensors, status, numpis, plotter, round, is_alone, db_conn, inbox,
                   faults, lossy, tried_db, last>>

\* The receiver decodes the frame.
Decode ==
    /\ codec.stage = "frame"
    /\ codec' = [codec EXCEPT !.stage = "decoded", !.got = DecodeMessage(codec.frame)]
    /\ UNCHANGED <<layout, sensors, status, numpis, plotter, round, is_alone, db_conn, inbox,
                   faults, lossy, tried_db, last>>

InitCodec ==
    /\ InitFields({"hosts"}, {[n \in Nodes |-> FALSE]}, [n \in Nodes |-> "built"])
    /\ db_conn[3] = "open"
    /\ \E t \in MsgTypes, p \in Payloads, k \in Targets :
          codec = [stage |-> "message", type |-> t, payload |-> p, target |-> k,
                   frame |-> <<>>, got |-> [ok |-> FALSE]]

NextCodec == Encode \/ Decode

SpecCodec == InitCodec /\ [][NextCodec]_vars

(***************************************************************************)
(* One accepted session of a node, with its input buffer data.inb.  The    *)
(* peer writes one or two frames on it; each recv returns some prefix of   *)
(* what has not yet arrived, as TCP delivers it.                           *)
(***************************************************************************)
\* The frames written on the session; longer streams are not tried.
MaxFrames == 2

\* What a peer may write as one frame: a message of send_message, text that is no JSON,
\* bytes that are no UTF-8.
SessionFrames ==
    {WireFrame("kill", PyStr("Plotter killed")),
     WireFrame("oneless", PyStr("Pi killed")),
     WireFrame("continue", PyNone),
     <<Tok("junk"), NL>>,
     <<Tok("bad8"), NL>>}

RECURSIVE Flatten(_)
\* The bytes of the frames, one after the other.
Flatten(frames) == IF frames = <<>> THEN <<>> ELSE Head(frames) \o Flatten(Tail(frames))

\* service_connection with EVENT_READ: recv returns the next k tokens, which are added to
\* data.inb; if data.inb then holds a delimiter, the whole of it is decoded, stripped and
\* handed to handle_message, and data.inb is emptied.
SessionRecv(n) ==
    /\ status[n] = "running"
    /\ codec.stage = "session"
    /\ \E k \in 1..Len(codec.pending) :
          LET inb == codec.inb \o SubSeq(codec.pending, 1, k)
              rest == SubSeq(codec.pending, k + 1, Len(codec.pending))
          IN  IF ~HasDelimiter(inb)
              THEN /\ codec' = [codec EXCEPT !.inb = inb, !.pending = rest]
                   /\ Step(n, Self(n), Quiet, "recv", <<>>, EmptyBag)
              ELSE /\ codec' = [codec EXCEPT !.inb = <<>>, !.pending = rest,
                                             !.dispatched = IF DecodeRaises(inb) THEN @
                                                            ELSE Append(@, Strip(inb))]
                   /\ \E s0 \in {service_connection(Self(n), inb, Calm(n))} :
                         \E env \in EnvsOf(n, s0) :
                            \E s \in {IF env = Calm(n) THEN s0
                                      ELSE service_connection(Self(n), inb, env)} :
                               Step(n, s, env, "deliver", inb, EmptyBag)

\* service_connection with EVENT_READ when the peer has closed: recv returns b"" and the
\* session is unregistered; what data.inb still held is dropped with it.
SessionEnd(n) ==
    /\ status[n] = "running"
    /\ codec.stage = "session"
    /\ codec.pending = <<>>
    /\ codec' = [codec EXCEPT !.stage = "closed", !.inb = <<>>]
    /\ Step(n, Self(n), Quiet, "close", <<>>, EmptyBag)

\* One node is constructed; a peer is about to write its frames on a session.
InitSession ==
    /\ \E d \in Deployments :
          InitFields({d.layout}, {[m \in Nodes |-> FALSE]},
                     [m \in Nodes |-> IF m = d.node THEN "built" ELSE "external"])
    /\ \E frames \in SeqsUpTo(SessionFrames, MaxFrames) :
          /\ frames # <<>>
          /\ codec = [stage |-> "session", sent |-> frames, pending |-> Flatten(frames),
                      inb |-> <<>>, dispatched |-> <<>>]

NextSession == \E n \in Nodes : Start(n) \/ SessionRecv(n) \/ SessionEnd(n)

SpecSession == InitSession /\ [][NextSession]_vars

(***************************************************************************)
(* The earlier node of src/token-ring.py (class TokenRingNode of that      *)
(* file): no alone mode, no reconnect, a kill handler that only counts     *)
(* down and a send_message that calls exit(1) when it has nobody left to   *)
(* try.  One node with external peers, as in SpecNode.  exit(1) raises     *)
(* SystemExit, which nothing catches: the call ends with crashed.          *)
(***************************************************************************)
\* plotter is unbounded below in this file; kills that would take it under 3 - MaxKills
\* are not delivered.
MaxKills == 4

\* send_message of src/token-ring.py: the other Pi is tried, by a recursive call, only if
\* host and port both differ from the other Pi's; the recursive call's own failure, or a
\* failure with no other Pi to try, ends in exit(1).
old_send_message(self, message, msg_type, to, pi_id, ok1, ok2) ==
    LET s1 == [self EXCEPT !.out = Append(@, Attempt(self, message, msg_type, to, pi_id, ok1, "given"))]
    IN  IF ok1 THEN s1
        ELSE IF to.host # self.other.host /\ to.port # self.other.port
             THEN LET s2 == [s1 EXCEPT !.out =
                                Append(@, Attempt(self, message, msg_type, self.other,
                                                  (pi_id + 1) % 3, ok2, "other"))]
                  IN  IF ok2 THEN s2 ELSE [s2 EXCEPT !.crashed = TRUE]
             ELSE [s1 EXCEPT !.crashed = TRUE]

\* plot_data of src/token-ring.py: fewer than two records are not plotted; the inserts
\* are tried whenever the node is the plotter, and a missing connection is one more
\* exception the try block logs.
old_plot_data(self, all_data, env) ==
    IF Len(all_data.vals) < 2 THEN self
    ELSE IF \E i \in 1..Len(all_data.vals) : RecordRaises(all_data.vals[i])
    THEN [self EXCEPT !.crashed = TRUE]
    ELSE LET s1 == IF self.pi_id = self.plotter
                   THEN [self EXCEPT !.calls = Append(@,
                            IF self.db_conn = "none" THEN "write_skip"
                            ELSE IF InsertFails(all_data, env) THEN "write_fail"
                            ELSE "write_ok")]
                   ELSE self
         IN  IF PlotRaises(all_data)
             THEN [s1 EXCEPT !.crashed = TRUE]
             ELSE [s1 EXCEPT !.agg = all_data, !.calls = Append(@, "plot")]

\* handle_message of src/token-ring.py, type "sensor_data"
old_handle_sensor_data(self, msg_data, env) ==
    LET got == DictGet(msg_data, "data", PyList(<<>>))
        received_data == IF got.kind = "dict" /\ HasKey(got, "data")
                         THEN DictGet(got, "data", PyNone) ELSE got
        all_data == PyList(Append(IF received_data.kind # "list" THEN <<>> ELSE received_data.vals,
                                  OwnRecord(self, env)))
    IN  IF self.pi_id = self.plotter
        THEN LET s2 == old_plot_data([self EXCEPT !.round = @ + 1], all_data, env)
             IN  IF s2.crashed THEN s2
                 ELSE old_send_message(s2, PyNone, "continue", s2.next, (s2.pi_id % 3) + 1,
                                       env.ok1, env.ok2)
        ELSE old_send_message(self, all_data, "sensor_data", self.next, (self.pi_id % 3) + 1,
                              env.ok1, env.ok2)

\* handle_message of src/token-ring.py, type "kill": the plotter is counted down, with no wrap.
old_handle_kill(self, env) ==
    LET s1 == [self EXCEPT !.plotter = @ - 1, !.numpis = IF @ > 1 THEN @ - 1 ELSE @]
    IN  IF s1.pi_id = s1.plotter THEN connect_db(s1, env) ELSE s1

\* handle_message of src/token-ring.py, type "gone"
old_handle_gone(self, env) ==
    LET s1 == [self EXCEPT !.numpis = IF @ > 1 THEN @ - 1 ELSE @, !.round = @ + 1]
    IN  old_send_message(s1, PyList(<<OwnRecord(s1, env)>>), "sensor_data", s1.next,
                         (s1.pi_id + 1) % 3, env.ok1, env.ok2)

\* handle_message of src/token-ring.py, type "oneless"
old_handle_oneless(self) == [self EXCEPT !.numpis = IF @ > 1 THEN @ - 1 ELSE @]

\* handle_message of src/token-ring.py, type "continue"
old_handle_continue(self, env) ==
    LET s1 == [self EXCEPT !.round = @ + 1]
    IN  old_send_message(s1, PyList(<<OwnRecord(s1, env)>>), "sensor_data", s1.next,
                         (s1.pi_id + 1) % 3, env.ok1, env.ok2)

\* handle_message(message) of src/token-ring.py
old_handle_message(self, message, env) ==
    LET r == Loads(message)
        msg_data == r.val
        type == DictGet(msg_data, "type", PyNone)
    IN  IF ~r.ok THEN self
        ELSE IF msg_data.kind # "dict" THEN [self EXCEPT !.crashed = TRUE]
        ELSE IF type = PyStr("sensor_data") THEN old_handle_sensor_data(self, msg_data, env)
        ELSE IF type = PyStr("kill") THEN old_handle_kill(self, env)
        ELSE IF type = PyStr("gone") THEN old_handle_gone(self, env)
        ELSE IF type = PyStr("oneless") THEN old_handle_oneless(self)
        ELSE IF type = PyStr("continue") THEN old_handle_continue(self, env)
        ELSE self

\* service_connection of src/token-ring.py, on a readable session whose recv returned inb.
old_service_connection(self, inb, env) ==
    IF ~HasDelimiter(inb) THEN self
    ELSE IF DecodeRaises(inb) THEN [self EXCEPT !.crashed = TRUE]
    ELSE old_handle_message(self, Strip(inb), env)

\* run() of src/token-ring.py, up to the event loop: node 1 starts the ring.
old_run_start(self, env) ==
    IF self.pi_id = 1
    THEN old_send_message(self, PyList(<<OwnRecord(self, env)>>), "sensor_data", self.next, 2,
                          env.ok1, env.ok2)
    ELSE self

\* run() of src/token-ring.py, the KeyboardInterrupt handler: node 3 sends kill twice, any
\* other node gone and oneless; an exit(1) in the first send leaves the second unsent.
old_run_interrupt(self, env) ==
    LET first == IF self.pi_id = 3 THEN "kill" ELSE "gone"
        second == IF self.pi_id = 3 THEN "kill" ELSE "oneless"
        text == PyStr(IF self.pi_id = 3 THEN "Plotter killed" ELSE "Pi killed")
        s1 == old_send_message(self, text, first, self.next, self.pi_id, env.ok1, env.ok2)
    IN  IF s1.crashed THEN s1
        ELSE old_send_message(s1, text, second, self.other, self.pi_id, env.ok3, env.ok3)

\* What a call may produce in this model: the caps of WithinBounds and that of MaxKills.
OldWithinBounds(s) == s.plotter >= 3 - MaxKills

\* python3 token-ring.py ... (src/token-ring.py): run() starts listening; node 1 starts the ring.
OldStart(n) ==
    /\ status[n] = "built"
    /\ \E s0 \in {old_run_start(Self(n), Calm(n))} : \E env \in EnvsOf(n, s0) :
          \E s \in {IF env = Calm(n) THEN s0 ELSE old_run_start(Self(n), env)} :
             OldWithinBounds(s) /\ Commit(n, s, env, "start", <<>>, EmptyBag)

\* The frames a peer running src/token-ring.py sends, and frames nobody sends.
OldInjectFrames == (PeerFrames \ {WireFrame("reconnect", PyNone)}) \cup StrayFrames

\* A frame arrives on a session of node n from outside the model and is serviced.
OldInject(n) ==
    /\ status[n] = "running"
    /\ \E f \in OldInjectFrames :
          \E s0 \in {old_service_connection(Self(n), f, Calm(n))} : \E env \in EnvsOf(n, s0) :
             \E s \in {IF env = Calm(n) THEN s0 ELSE old_service_connection(Self(n), f, env)} :
                OldWithinBounds(s) /\ Commit(n, s, env, "deliver", f, EmptyBag)

\* The operator interrupts the process.
OldShutdown(n) ==
    /\ status[n] = "running"
    /\ \E s0 \in {old_run_interrupt(Self(n), Calm(n))} : \E env \in EnvsOf(n, s0) :
          \E s \in {IF env = Calm(n) THEN s0 ELSE old_run_interrupt(Self(n), env)} :
             OldWithinBounds(s) /\ Commit(n, s, env, "interrupt", <<>>, EmptyBag)

\* One node of src/token-ring.py is constructed, without sensors; node 3 is the one
\* started with is_db_connector; its peers are external.
InitOld ==
    /\ \E d \in Deployments :
          InitFields({d.layout}, {[m \in Nodes |-> FALSE]},
                     [m \in Nodes |-> IF m = d.node THEN "built" ELSE "external"])
    /\ codec = [stage |-> "off"]

NextOld == \E n \in Nodes : OldStart(n) \/ OldInject(n) \/ RecvFails(n) \/ OldShutdown(n)

SpecOld == InitOld /\ [][NextOld]_vars

(***************************************************************************)
(* The claims.                                                             *)
(***************************************************************************)
\* The last step serviced a frame that handle_message dispatched on type msg_type.
Handled(msg_type) ==
    /\ last.kind = "deliver"
    /\ DecodeMessage(last.frame).ok
    /\ DecodeMessage(last.frame).type = PyStr(msg_type)

\* The attempts of the last step that carried a circulation message.
CirculationSent == {i \in 1..Len(last.out) : last.out[i].type \in Circulation}

\* C1: in every state between two handlers of a live node, alone is true if and only if
\* numpis is 1.  (Refuted: a kill handled with numpis = 2 leaves numpis = 1 and alone false.)
C1_AloneIffSingle ==
    \A n \in Nodes : status[n] \in {"built", "running"} => (is_alone[n] <=> numpis[n] = 1)

\* C2: a node that is alone transmits no sensor_data and no continue, to the next Pi or to
\* the other one, until a handler of an inbound message has cleared the flag: every such
\* attempt is made with the flag false, a step that begins alone makes one only while
\* servicing a frame, and only servicing a frame takes the flag from true to false.
C2_AloneIsSilent ==
    /\ \A i \in CirculationSent : ~last.out[i].alone
    /\ (last.pre.is_alone /\ CirculationSent # {}) => last.kind = "deliver"
    /\ (last.pre.is_alone /\ ~is_alone[last.node]) => last.kind = "deliver"

\* An alone node is handed the token (continue) and sends nothing.
C2_Witness ==
    /\ last.pre.is_alone
    /\ Handled("continue")
    /\ last.out = <<>>
    /\ is_alone[last.node]

\* C3: round never decreases: in every step, whatever frame is serviced and however the
\* sends end, the round of every node is at least what it was.
C3_RoundMonotone == [][\A n \in Nodes : round'[n] >= round[n]]_vars

\* A step raised the round although both of its sends failed.
C3_Witness ==
    /\ round[last.node] = last.pre.round + 1
    /\ Len(last.out) = 2
    /\ \A i \in 1..Len(last.out) : ~last.out[i].ok

\* The plotter that follows p in the rotation of kill.
Rotated(p) == IF p > 1 THEN p - 1 ELSE RingSize

\* C4, as stated: whenever a node handles kill, whatever its plotter and numpis were, the new
\* plotter is the old one minus 1, or 3 after 1.
C4_KillAlwaysRotates == Handled("kill") => plotter[last.node] = Rotated(last.pre.plotter)

\* C4, amended: a node that handles kill with numpis > 1 rotates its plotter (minus 1, or 3
\* after 1); with numpis = 1 it leaves the plotter as it was.
C4_KillRotatesWhileSeveral ==
    Handled("kill") =>
        plotter[last.node] = IF last.pre.numpis > 1 THEN Rotated(last.pre.plotter)
                             ELSE last.pre.plotter

\* A kill handled with plotter 1 and numpis 3 wraps the plotter to 3.
C4_Witness ==
    /\ Handled("kill")
    /\ last.pre.plotter = 1
    /\ last.pre.numpis = 3
    /\ plotter[last.node] = 3

\* C5: numpis of every node is between 1 and 3 in every state.  (Refuted: reconnect adds 1
\* to numpis whatever it is.)
C5_ActiveCountInRange == \A n \in Nodes : numpis[n] \in 1..RingSize

\* C6: a send whose attempt on the given address fails makes exactly one attempt on the
\* other address when the two addresses differ in host or in port, and none when they are
\* equal; an attempt on the other address is only ever made after such a failure.
C6_OneFallback ==
    LET out == last.out
        other == Addr(layout, OtherOf(last.node))
    IN  \A i \in 1..Len(out) :
           /\ (out[i].hop = "given" /\ ~out[i].ok /\ out[i].to # other) =>
                 /\ i < Len(out)
                 /\ out[i + 1].hop = "other"
                 /\ out[i + 1].to = other
                 /\ out[i + 1].frame = out[i].frame
                 /\ i + 2 <= Len(out) => out[i + 2].hop = "given"
           /\ (out[i].hop = "given" /\ ~out[i].ok /\ out[i].to = other) =>
                 (i < Len(out) => out[i + 1].hop = "given")
           /\ out[i].hop = "other" => (i > 1 /\ out[i - 1].hop = "given" /\ ~out[i - 1].ok)

\* A node whose peers differ from it in port only shuts down and all its sends fail: the
\* notice for the next Pi is tried once more on the other Pi, the notice for the other Pi
\* is not.
C6_Witness ==
    /\ layout = "ports"
    /\ last.kind = "interrupt"
    /\ Len(last.out) = 3
    /\ last.out[2].hop = "other"
    /\ last.out[3].hop = "given"
    /\ \A i \in 1..3 : ~last.out[i].ok

\* The decoded message has the type and the payload of the message that was encoded.
SameTypeAndPayload ==
    /\ codec.got.ok
    /\ codec.got.type = PyStr(codec.type)
    /\ codec.got.data = codec.payload

\* C7, as stated: a message encoded by send_message and decoded by service_connection and
\* handle_message equals the original in type, payload and target id.
C7_RoundTripWithTarget ==
    codec.stage = "decoded" => (SameTypeAndPayload /\ codec.got.extra = {PyNum(codec.target)})

\* C7, amended: the decoded message equals the original in type and payload; the target id
\* is not on the wire.
C7_RoundTripTypePayload ==
    codec.stage = "decoded" => (SameTypeAndPayload /\ codec.got.extra = {})

\* A sensor_data message with the longest payload has gone through the codec.
C7_Witness ==
    /\ codec.stage = "decoded"
    /\ codec.type = "sensor_data"
    /\ codec.payload.kind = "list"
    /\ Len(codec.payload.vals) = MaxRecords
    /\ codec.target = 2
    /\ codec.got.ok

\* A delimiter-terminated input that is no valid message: not UTF-8, not JSON, JSON that is
\* no object, an object of unknown type, or sensor_data with a record that has no pi_id.
Malformed(frame) ==
    /\ HasDelimiter(frame)
    /\ LET m == DecodeMessage(frame)
       IN  \/ ~m.ok
           \/ m.type \notin {PyStr(t) : t \in MsgTypes}
           \/ /\ m.type = PyStr("sensor_data")
              /\ m.data.kind = "list"
              /\ \E i \in 1..Len(m.data.vals) : ~HasKey(m.data.vals[i], "pi_id")

\* C8: a node that services a malformed input keeps numpis, plotter, round and alone as they
\* were and goes on running.  (Refuted: three of the five kinds end the process or change
\* the state.)
C8_MalformedIsDropped ==
    (last.kind = "deliver" /\ Malformed(last.frame)) =>
        /\ ~last.crashed
        /\ status[last.node] = "running"
        /\ numpis[last.node] = last.pre.numpis
        /\ plotter[last.node] = last.pre.plotter
        /\ round[last.node] = last.pre.round
        /\ is_alone[last.node] = last.pre.is_alone

\* No process has been interrupted or has died, and no connect-and-send has failed.
Clean == ~lossy /\ \A n \in Nodes : status[n] \in {"built", "running"}

\* The pi_id of the records of a payload, in order.
Owners(message) ==
    [i \in 1..Len(message.vals) |-> DictGet(message.vals[i], "pi_id", PyNone).num]

\* The last step made one send, of a msg_type message to node m.
SentTo(m, msg_type) ==
    /\ Len(last.out) = 1
    /\ last.out[1].to = Addr(layout, m)
    /\ last.out[1].type = msg_type

\* The frames in flight to node n are exactly one msg_type frame.
Holds(n, msg_type) ==
    /\ BagCardinality(inbox[n]) = 1
    /\ \A f \in BagToSet(inbox[n]) : DecodeMessage(f).type = PyStr(msg_type)

\* C9: while no node has shut down and every send has succeeded, the ring of three repeats
\* one order.  Node 1 starts with sensor_data of its own record alone to node 2; node 2
\* forwards the records of 1 and 2, in that order, to node 3; node 3 plots the records of
\* exactly 1, 2 and 3, raises its round by 1 (to 1 the first time) and sends continue to
\* node 1; node 1 answers continue with sensor_data of its own record alone to node 2.
\* Nothing else is serviced, and once node 1 has started exactly one of these messages is
\* in flight, so that the order goes on.
C9_CleanRound ==
    Clean =>
        /\ (last.kind = "start" /\ last.node = 1) =>
              (SentTo(2, "sensor_data") /\ Owners(last.out[1].message) = <<1>>)
        /\ (Handled("sensor_data") /\ last.node = 2) =>
              (SentTo(3, "sensor_data") /\ Owners(last.out[1].message) = <<1, 2>>)
        /\ (Handled("sensor_data") /\ last.node = 3) =>
              /\ last.agg.kind = "list"
              /\ Len(last.agg.vals) = 3
              /\ {Owners(last.agg)[i] : i \in 1..3} = {1, 2, 3}
              /\ round[3] = last.pre.round + 1
              /\ round[3] = round[1] + 1
              /\ SentTo(1, "continue")
        /\ (Handled("continue") /\ last.node = 1) =>
              (SentTo(2, "sensor_data") /\ Owners(last.out[1].message) = <<1>>)
        /\ last.kind = "deliver" =>
              \/ Handled("sensor_data") /\ last.node \in {2, 3}
              \/ Handled("continue") /\ last.node = 1
        /\ status[1] = "running" =>
              \/ Holds(2, "sensor_data") /\ inbox[3] = EmptyBag /\ inbox[1] = EmptyBag
                 /\ round[3] = round[1]
              \/ Holds(3, "sensor_data") /\ inbox[1] = EmptyBag /\ inbox[2] = EmptyBag
                 /\ round[3] = round[1]
              \/ Holds(1, "continue") /\ inbox[2] = EmptyBag /\ inbox[3] = EmptyBag
                 /\ round[3] = round[1] + 1

\* The clean ring is in its second traversal: node 1 has answered the second continue.
C9_Witness ==
    /\ Clean
    /\ Handled("continue")
    /\ last.node = 1
    /\ round[1] = 2
    /\ round[3] = 2

\* A kill frame is in flight to node n.
KillPending(n) == \E f \in BagToSet(inbox[n]) : DecodeMessage(f).type = PyStr("kill")

\* Node 3 was interrupted with its initial beliefs, both of its kill notices arrived, and
\* nodes 1 and 2 have serviced them.
KillsHandled ==
    /\ ~lossy
    /\ status[3] = "stopped" /\ numpis[3] = 3 /\ plotter[3] = 3
    /\ status[1] = "running" /\ status[2] = "running"
    /\ ~KillPending(1) /\ ~KillPending(2)

\* C10: when node 3 shuts down with the initial beliefs (numpis 3, plotter 3) and nodes 1
\* and 2 have serviced its kill notices, both have numpis 2 and plotter 2, node 2 has
\* called connect_db and node 1 has not.
C10_PlotterShutdown ==
    KillsHandled =>
        /\ numpis[1] = 2 /\ plotter[1] = 2
        /\ numpis[2] = 2 /\ plotter[2] = 2
        /\ tried_db[2]
        /\ ~tried_db[1]

\* Node 2 has just serviced the second of the two kill notices.
C10_Witness ==
    /\ KillsHandled
    /\ Handled("kill")
    /\ last.node = 2
    /\ numpis[1] = 2
    /\ db_conn[2] = "open"

\* The last step closed the database connection, or tried to and the close raised (the
\* handle is then kept).
SinkReleased(n) ==
    \/ db_conn[n] = "none"
    \/ Called(last, "close_fail") /\ db_conn[n] = "open"

\* The last step serviced a gone or a oneless frame and left numpis at 1.
ReducedToOne ==
    /\ Handled("gone") \/ Handled("oneless")
    /\ last.pre.numpis <= 2
    /\ numpis[last.node] = 1

\* C11: a node whose numpis gone or oneless have brought to 1 is alone and
\* holds no database connection, and an alone node sends no sensor_data or continue and
\* stays alone until it services reconnect.  (Refuted: a close that raises leaves the
\* handle in place.)
C11_LastOneStopsClosed ==
    /\ ReducedToOne => (is_alone[last.node] /\ db_conn[last.node] = "none")
    /\ (last.pre.is_alone /\ CirculationSent # {}) => Handled("reconnect")
    /\ (last.pre.is_alone /\ ~is_alone[last.node]) => Handled("reconnect")

\* What does hold of C11: a node whose numpis gone or oneless have brought to 1 is alone
\* and has closed its database connection or has tried to; an alone node sends no
\* sensor_data or continue and stays alone, whatever it services, until it services
\* reconnect.
C11_LastOneStops ==
    /\ ReducedToOne => (is_alone[last.node] /\ SinkReleased(last.node))
    /\ (last.pre.is_alone /\ CirculationSent # {}) => Handled("reconnect")
    /\ (last.pre.is_alone /\ ~is_alone[last.node]) => Handled("reconnect")

\* A plotter with an open connection is told of the second departure: it is alone and
\* the connection is closed.
C11_Witness ==
    /\ Handled("oneless")
    /\ last.pre.numpis = 2
    /\ last.pre.db_conn = "open"
    /\ is_alone[last.node]
    /\ db_conn[last.node] = "none"
    /\ last.out = <<>>

\* The attempts of the last step on the address send_message was given.
GivenAttempts == SelectSeq(last.out, LAMBDA a : a.hop = "given")

\* The last step sent a first notice to the next Pi and a second notice to the other Pi.
Announced(first, second) ==
    /\ Len(GivenAttempts) = 2
    /\ GivenAttempts[1].type = first
    /\ GivenAttempts[1].to = Addr(layout, NextOf(last.node))
    /\ GivenAttempts[2].type = second
    /\ GivenAttempts[2].to = Addr(layout, OtherOf(last.node))

\* The notices of a node that is interrupted: kill twice from the plotter, gone and
\* oneless from any other node.
Departure ==
    IF last.pre.plotter = last.node THEN Announced("kill", "kill")
    ELSE Announced("gone", "oneless")

C13_AnyMessageClearsAlone ==
    (last.pre.is_alone /\ \E t \in MsgTypes : Handled(t)) => ~is_alone[last.node]

\* Attempt i of the last step failed and so did its second try on the other Pi, if the
\* send had one.
FailedOnBoth(i) ==
    /\ last.out[i].hop = "given"
    /\ ~last.out[i].ok
    /\ (i < Len(last.out) /\ last.out[i + 1].hop = "other") => ~last.out[i + 1].ok

\* The last step left numpis, plotter, round and alone as they were and did not touch the
\* database connection.
SendChangedNothing ==
    /\ numpis[last.node] = last.pre.numpis
    /\ plotter[last.node] = last.pre.plotter
    /\ round[last.node] = last.pre.round
    /\ is_alone[last.node] = last.pre.is_alone
    /\ last.calls = <<>>

\* C14: after a sensor_data or continue send that failed on both Pis the node
\* is alone with numpis 1 and no database connection; a notice that failed on both Pis
\* changed nothing.  (Refuted: a close that raises leaves the handle in place.)
C14_GivingUpClosed ==
    \A i \in 1..Len(last.out) :
        FailedOnBoth(i) =>
            IF last.out[i].type \in Circulation
            THEN is_alone[last.node] /\ numpis[last.node] = 1 /\ db_conn[last.node] = "none"
            ELSE SendChangedNothing

\* What does hold of C14: after a sensor_data or continue send that failed on both Pis the
\* node is alone with numpis 1 and has closed its database connection or has tried to; a
\* notice that failed on both Pis changed nothing.
C14_GivingUp ==
    \A i \in 1..Len(last.out) :
        FailedOnBoth(i) =>
            IF last.out[i].type \in Circulation
            THEN is_alone[last.node] /\ numpis[last.node] = 1 /\ SinkReleased(last.node)
            ELSE SendChangedNothing

\* The plotter, connected to the database, cannot hand continue to either Pi: it is
\* alone and the connection is closed.
C14_Witness ==
    /\ Handled("sensor_data")
    /\ last.pre.db_conn = "open"
    /\ Len(last.out) = 2
    /\ last.out[1].type = "continue"
    /\ FailedOnBoth(1)
    /\ is_alone[last.node]
    /\ db_conn[last.node] = "none"

\* C15: a send that failed on both Pis leaves the node in its event loop, and a process
\* ends only by being interrupted.  (Refuted: a recv that raises, or a frame that makes a
\* handler raise, ends the process.)
C15_OnlyShutdownEnds ==
    /\ (last.kind # "interrupt" /\ \E i \in 1..Len(last.out) : FailedOnBoth(i)) =>
          status[last.node] = "running"
    /\ \A n \in Nodes : status[n] # "crashed"

\* What does hold of C15: a step in which a send failed on both Pis does not end the
\* process, and a step that ends it otherwise than by interrupt has sent nothing.
C15_SendFailureSurvived ==
    /\ (last.kind # "interrupt" /\ \E i \in 1..Len(last.out) : FailedOnBoth(i)) =>
          (status[last.node] = "running" /\ ~last.crashed)
    /\ last.crashed => last.out = <<>>

\* The last step serviced sensor_data, as a peer sends it, at the plotter of several.
PlotterGotData ==
    /\ Handled("sensor_data")
    /\ last.frame \in PeerFrames
    /\ last.pre.plotter = last.node
    /\ last.pre.numpis > 1

\* C16: the plotter of several that services sensor_data raises its round by 1 and tries
\* to send continue to the next Pi, whether it has no database connection (the insert is
\* skipped), the insert succeeds or the insert fails.
C16_RoundGoesOn ==
    PlotterGotData =>
        /\ ~last.crashed
        /\ round[last.node] = last.pre.round + 1
        /\ Len(last.out) >= 1
        /\ last.out[1].type = "continue"
        /\ last.out[1].to = Addr(layout, NextOf(last.node))
        /\ IF last.pre.db_conn = "none" THEN Called(last, "write_skip")
           ELSE Called(last, "write_ok") \/ Called(last, "write_fail")
        /\ Called(last, "plot")

\* The insert failed and continue went out all the same.
C16_Witness ==
    /\ PlotterGotData
    /\ Called(last, "write_fail")
    /\ round[last.node] = last.pre.round + 1
    /\ last.out[1].type = "continue"
    /\ last.out[1].ok

\* Process n has not ended.
Live(n) == status[n] \in {"built", "running"}

\* C17: a node that holds a database connection believes itself the plotter.  (Refuted:
\* the kill handler never closes the connection of the node the plotter moves away from.)
C17_SinkOnlyAtPlotter == \A n \in Nodes : (Live(n) /\ db_conn[n] = "open") => plotter[n] = n

\* C18: between handlers, a node that is alone holds no database connection.  (Refuted:
\* the alone branches of the sensor_data and continue handlers close nothing.)
C18_AloneHoldsNoSink == \A n \in Nodes : (Live(n) /\ is_alone[n]) => db_conn[n] = "none"

\* A plotter has been interrupted and has sent its kill notices.
PlotterLeft == \E n \in Nodes : status[n] = "stopped" /\ plotter[n] = n /\ numpis[n] > 1

\* Every frame that was sent has been serviced.
AtRest == \A n \in Nodes : inbox[n] = EmptyBag

\* C19: after a plotter has shut down, once every frame sent has been serviced, the
\* running nodes agree on the plotter, also when one of the kill sends failed.  (Refuted:
\* a kill that fails on the next Pi is sent to the other Pi, which then handles two.)
C19_AgreementAtRest ==
    (PlotterLeft /\ AtRest) =>
        \A n, m \in Nodes : (status[n] = "running" /\ status[m] = "running") => plotter[n] = plotter[m]

\* C20: plotter is between 1 and 3 in every state, however many kill frames are handled.
C20_PlotterInRange == \A n \in Nodes : plotter[n] \in 1..RingSize

\* A kill handled with plotter 1 and numpis 2 wraps the plotter to 3.
C20_Witness ==
    /\ Handled("kill")
    /\ last.pre.plotter = 1
    /\ last.pre.numpis = 2
    /\ numpis[last.node] = 1
    /\ plotter[last.node] = 3

\* C21: in the node of src/token-ring.py, plotter is between 1 and 3 in every state,
\* however many kill frames are handled.  (Refuted: the kill handler of that file
\* subtracts 1 and never wraps.)
C21_OldPlotterInRange == \A n \in Nodes : plotter[n] \in 1..RingSize

\* The send to the given address failed and that address differs from the other Pi's in
\* host or in port.
OldShouldRetry ==
    /\ Len(last.out) >= 1
    /\ ~last.out[1].ok
    /\ last.out[1].to # Addr(layout, OtherOf(last.node))

\* C22: in the node of src/token-ring.py, a send that failed is tried again on the other
\* Pi whenever the other Pi's address differs in host or in port, and a step in which a
\* send failed does not end the process.  (Refuted: the retry needs host and port both to
\* differ, and a send with nobody left to try calls exit(1).)
C22_OldSendFailureSurvived ==
    /\ (last.kind \in {"start", "deliver"} /\ OldShouldRetry) =>
          (Len(last.out) >= 2 /\ last.out[2].hop = "other")
    /\ (last.kind \in {"start", "deliver"} /\ \E i \in 1..Len(last.out) : ~last.out[i].ok) =>
          (status[last.node] = "running" /\ ~last.crashed)

\* The payload of the sensor_data frame the last step serviced, a list of records.
Received == DecodeMessage(last.frame).data

\* The record the node of the last step builds of itself, whatever its sensors read.
OwnRecords == {RecordOf(last.node, r) : r \in Readings}

\* message is the received payload followed by one record of the node's own.
ReceivedPlusOwn(message) ==
    /\ message.kind = "list"
    /\ Len(message.vals) = Len(Received.vals) + 1
    /\ SubSeq(message.vals, 1, Len(Received.vals)) = Received.vals
    /\ message.vals[Len(message.vals)] \in OwnRecords

\* message is one record of the node's own and nothing else.
OwnOnly(message) ==
    /\ message.kind = "list"
    /\ Len(message.vals) = 1
    /\ message.vals[1] \in OwnRecords

\* Every attempt of the last step carries the same message of type msg_type, the first
\* goes to the next Pi, and at most one succeeded: one message is sent.
SendsOne(msg_type) ==
    /\ Len(last.out) >= 1
    /\ last.out[1].to = Addr(layout, NextOf(last.node))
    /\ \A i \in 1..Len(last.out) :
          /\ last.out[i].type = msg_type
          /\ last.out[i].message = last.out[1].message
          /\ last.out[i].ok => i = Len(last.out)

\* The step left round, plotter and numpis as they were.
BeliefsKept ==
    /\ round[last.node] = last.pre.round
    /\ plotter[last.node] = last.pre.plotter
    /\ numpis[last.node] = last.pre.numpis

\* The last step serviced sensor_data with a list for payload at a node that is not the
\* plotter and counts several Pis.
ForwarderGotData ==
    /\ Handled("sensor_data")
    /\ Received.kind = "list"
    /\ last.pre.plotter # last.node
    /\ last.pre.numpis > 1

\* C23: a node that is not the plotter and counts several Pis, servicing sensor_data with
\* payload P, sends one sensor_data whose payload is P followed by its own record, first
\* to the next Pi, and keeps round, plotter and numpis when the send succeeds.
C23_ForwardsPayloadPlusOwn ==
    ForwarderGotData =>
        /\ ~last.crashed
        /\ SendsOne("sensor_data")
        /\ ReceivedPlusOwn(last.out[1].message)
        /\ last.out[Len(last.out)].ok => BeliefsKept

\* Two records came in, three went on to the next Pi.
C23_Witness ==
    /\ ForwarderGotData
    /\ Len(Received.vals) = 2
    /\ Len(last.out) = 1
    /\ last.out[1].ok
    /\ Len(last.out[1].message.vals) = 3
    /\ BeliefsKept

\* C24: the plotter of several, servicing sensor_data, raises round by exactly 1, hands
\* plot_data the received payload followed by its own record, and sends one continue,
\* first to the next Pi, that carries no payload; it sends no sensor_data.
C24_PlotterAggregates ==
    PlotterGotData =>
        /\ ~last.crashed
        /\ round[last.node] = last.pre.round + 1
        /\ ReceivedPlusOwn(last.agg)
        /\ SendsOne("continue")
        /\ last.out[1].message = PyNone

\* Two records came in, three were plotted, and continue went to the next Pi.
C24_Witness ==
    /\ PlotterGotData
    /\ Len(Received.vals) = 2
    /\ Len(last.agg.vals) = 3
    /\ Len(last.out) = 1
    /\ last.out[1].type = "continue"
    /\ last.out[1].ok

\* numpis after the decrement of gone and oneless: one less, not below 1.
Decremented == IF last.pre.numpis > 1 THEN last.pre.numpis - 1 ELSE last.pre.numpis

\* What gone does when Pis remain: round is raised by exactly 1 and one sensor_data with
\* the node's own record only is sent, first to the next Pi; numpis is as decremented
\* unless the send failed on both Pis.
GoneRestartsRound ==
    /\ round[last.node] = last.pre.round + 1
    /\ SendsOne("sensor_data")
    /\ OwnOnly(last.out[1].message)
    /\ numpis[last.node] = (IF last.out[Len(last.out)].ok THEN Decremented ELSE 1)

\* C25: a node servicing gone decrements numpis, not below 1; if the result is at most 1
\* it is alone, its database connection is closed, it sends nothing and keeps round;
\* otherwise it raises round by exactly 1 and sends one sensor_data carrying its own
\* record only to the next Pi.  (Refuted: a close that raises leaves the handle in place.)
C25_GoneClosed ==
    Handled("gone") =>
        /\ ~last.crashed
        /\ IF Decremented <= 1
           THEN /\ numpis[last.node] = Decremented
                /\ is_alone[last.node]
                /\ db_conn[last.node] = "none"
                /\ last.out = <<>>
                /\ round[last.node] = last.pre.round
           ELSE GoneRestartsRound

\* What does hold of C25: the same, with the database connection closed or the close
\* tried.
C25_GoneHandled ==
    Handled("gone") =>
        /\ ~last.crashed
        /\ IF Decremented <= 1
           THEN /\ numpis[last.node] = Decremented
                /\ is_alone[last.node]
                /\ SinkReleased(last.node)
                /\ last.out = <<>>
                /\ round[last.node] = last.pre.round
           ELSE GoneRestartsRound

\* C26: servicing oneless or kill sends nothing and leaves round as it was; oneless
\* leaves plotter as it was.
C26_NoticesSendNothing ==
    (Handled("kill") \/ Handled("oneless")) =>
        /\ ~last.crashed
        /\ last.out = <<>>
        /\ round[last.node] = last.pre.round
        /\ Handled("oneless") => plotter[last.node] = last.pre.plotter

\* The plotter of three is told by oneless that one Pi left: two remain, it connects to
\* the database and sends nothing.
C26_Witness ==
    /\ Handled("oneless")
    /\ last.pre.numpis = 3
    /\ last.pre.plotter = last.node
    /\ numpis[last.node] = 2
    /\ Called(last, "connect_ok")
    /\ last.out = <<>>
    /\ round[last.node] = last.pre.round

\* C27: a node servicing continue with numpis > 1 sends one sensor_data carrying its own
\* record only, first to the next Pi; with numpis <= 1 it is alone and sends nothing.
C27_ContinueStartsData ==
    Handled("continue") =>
        /\ ~last.crashed
        /\ IF last.pre.numpis > 1
           THEN SendsOne("sensor_data") /\ OwnOnly(last.out[1].message)
           ELSE is_alone[last.node] /\ last.out = <<>>

\* continue at a node of three: its own record goes to the next Pi.
C27_Witness ==
    /\ Handled("continue")
    /\ last.pre.numpis = 3
    /\ Len(last.out) = 1
    /\ last.out[1].ok
    /\ last.out[1].type = "sensor_data"
    /\ OwnOnly(last.out[1].message)

\* The last step serviced continue and its send succeeded.
ContinueSent ==
    /\ Handled("continue")
    /\ Len(last.out) >= 1
    /\ last.out[Len(last.out)].ok

\* The last step is the plotter of several aggregating sensor_data, or gone restarting a
\* round.
AggregatedOrRestarted ==
    \/ Handled("sensor_data") /\ last.pre.plotter = last.node /\ last.pre.numpis > 1
    \/ Handled("gone") /\ last.pre.numpis > 2

\* C28, as stated: servicing continue with a send that succeeds leaves round, plotter and
\* numpis as they were; round changes only when the plotter aggregates sensor_data and
\* when gone restarts a round.
C28_ContinueKeepsRound ==
    /\ ContinueSent => BeliefsKept
    /\ round[last.node] # last.pre.round => AggregatedOrRestarted

\* C28, amended: servicing continue raises round by exactly 1 and, with a send that
\* succeeds, leaves plotter and numpis as they were; round changes only by 1 up, when the
\* plotter aggregates sensor_data, when gone restarts a round and when continue is serviced.
C28_ContinueCountsRound ==
    /\ Handled("continue") => round[last.node] = last.pre.round + 1
    /\ ContinueSent =>
          (plotter[last.node] = last.pre.plotter /\ numpis[last.node] = last.pre.numpis)
    /\ round[last.node] # last.pre.round =>
          /\ round[last.node] = last.pre.round + 1
          /\ AggregatedOrRestarted \/ Handled("continue")

\* continue was serviced, the data went out, and round is one more.
C28_Witness ==
    /\ ContinueSent
    /\ round[last.node] = last.pre.round + 1
    /\ numpis[last.node] = last.pre.numpis

\* The last step serviced reconnect at a node that was alone with numpis 1, and its send
\* succeeded.
Reconnected ==
    /\ Handled("reconnect")
    /\ last.pre.is_alone
    /\ last.pre.numpis = 1
    /\ Len(last.out) >= 1
    /\ last.out[Len(last.out)].ok

\* What reconnect does apart from the database: alone is cleared, numpis is 2, and one
\* sensor_data carrying the node's own record only is sent, first to the next Pi.
RejoinsRing ==
    /\ ~last.crashed
    /\ ~is_alone[last.node]
    /\ numpis[last.node] = 2
    /\ SendsOne("sensor_data")
    /\ OwnOnly(last.out[1].message)

\* C29, as stated: an alone node with numpis 1 servicing reconnect, its send succeeding,
\* ends not alone with numpis 2, has opened a database connection if and only if it is
\* the plotter, and has sent one sensor_data carrying its own record only to the next Pi.
C29_ReconnectOpens ==
    Reconnected =>
        /\ RejoinsRing
        /\ Called(last, "connect_ok") <=> last.pre.plotter = last.node

\* C29, amended: the same, where the node has tried to open a database connection if and
\* only if it is the plotter, and holds one if the connect succeeded.
C29_ReconnectTriesToOpen ==
    Reconnected =>
        /\ RejoinsRing
        /\ (Called(last, "connect_ok") \/ Called(last, "connect_fail")) <=>
              last.pre.plotter = last.node
        /\ Called(last, "connect_ok") => db_conn[last.node] = "open"
        /\ Called(last, "connect_fail") => db_conn[last.node] = "none"

\* The plotter, alone, services reconnect: it connects to the database and its record
\* goes to the next Pi.
C29_Witness ==
    /\ Reconnected
    /\ last.pre.plotter = last.node
    /\ Called(last, "connect_ok")
    /\ db_conn[last.node] = "open"
    /\ numpis[last.node] = 2
    /\ ~is_alone[last.node]

\* The messages handle_message is to get of the frames written on the session.
Expected == [i \in 1..Len(codec.sent) |-> Strip(codec.sent[i])]

\* C30: every frame written on a session is handed to handle_message once and in order:
\* what has been dispatched is at any time a prefix of the frames written, and all of
\* them by the time the session is closed, however the frames are split over the recv
\* calls.  (Refuted: whatever the buffer holds when a delimiter is seen is dispatched as
\* one message.)
C30_EveryFrameOnce ==
    /\ Len(codec.dispatched) <= Len(codec.sent)
    /\ \A i \in 1..Len(codec.dispatched) : codec.dispatched[i] = Expected[i]
    /\ codec.stage = "closed" => codec.dispatched = Expected

\* What does hold of C30: a frame that is alone in the buffer when its delimiter arrives
\* is dispatched as it was written, also when it came in several pieces.
C30_OneFrameAtATime ==
    (codec.stage = "closed" /\ Len(codec.sent) = 1) => codec.dispatched = Expected

\* The last step handed the session's buffer on for decoding and the decoding failed: the
\* bytes are not UTF-8, or the text is not JSON.
DecodeFailed ==
    /\ last.kind = "deliver"
    /\ HasDelimiter(last.frame)
    /\ (DecodeRaises(last.frame) \/ ~Loads(Strip(last.frame)).ok)

\* C31: when the frame received on a session fails to decode, the session is closed as
\* part of handling the failure, the node goes on running, and its numpis, plotter, round
\* and alone are as they were.  (Refuted: text that is not JSON is dropped and the session
\* stays registered; bytes that are not UTF-8 end the process.)
C31_DecodeFailureCloses ==
    DecodeFailed =>
        /\ codec.stage = "closed"
        /\ status[last.node] = "running"
        /\ BeliefsKept
        /\ is_alone[last.node] = last.pre.is_alone

\* What does hold of C31: text that is not JSON changes nothing at the node, which goes
\* on running with an empty buffer and the session still registered.
C31_JsonFailureDropped ==
    (DecodeFailed /\ ~DecodeRaises(last.frame)) =>
        /\ codec.stage = "session"
        /\ codec.inb = <<>>
        /\ status[last.node] = "running"
        /\ BeliefsKept
        /\ is_alone[last.node] = last.pre.is_alone
        /\ last.out = <<>>

\* C32: in every state between two handlers, a node that has not ended and has alone true
\* has numpis 1: no handler and no outcome of a send leaves alone true with numpis above 1.
C32_AloneMeansSingle ==
    \A n \in Nodes : (Live(n) /\ is_alone[n]) => numpis[n] = 1

\* A node that counted several Pis fails to hand a circulation message to either of them
\* and is alone.
C32_Witness ==
    /\ last.kind \in {"start", "deliver"}
    /\ last.pre.numpis > 1
    /\ \E i \in CirculationSent : FailedOnBoth(i)
    /\ Live(last.node)
    /\ is_alone[last.node]

\* The frames queued at node n that carry a circulation message, each as often as it is
\* queued.
TokensAt(n) ==
    LET held == {f \in BagToSet(inbox[n]) :
                    DecodeMessage(f).ok /\ DecodeMessage(f).type \in {PyStr(t) : t \in Circulation}}
    IN  BagCardinality([f \in held |-> CopiesIn(f, inbox[n])])

\* C33: across the ring there is at any time at most one circulation message, sensor_data
\* or continue, in flight or queued at a node, also after a node that is not the plotter
\* has shut down and its gone has made the receiver start a round.  (Refuted: the round
\* gone starts is one more message beside the one already on its way.)
C33_OneToken ==
    TokensAt(1) + TokensAt(2) + TokensAt(3) <= 1

\* A ring at rest whose processes neither start nor end stays at rest, and no round
\* counter moves: no handler is due, and the alone check sends nothing.
RestIsFinal ==
    [][(AtRest /\ status' = status) => (AtRest' /\ round' = round)]_vars

\* Node 3 has shut down as plotter of three; nodes 1 and 2 are running, have serviced its
\* kill and agree on node 2 as plotter of two; no send to a listening node and no database
\* call has failed.
PlotterDeparted ==
    /\ status[3] = "stopped"
    /\ plotter[3] = 3
    /\ numpis[3] = 3
    /\ faults = 0
    /\ \A n \in {1, 2} : /\ status[n] = "running"
                          /\ numpis[n] = 2
                          /\ plotter[n] = 2
                          /\ ~is_alone[n]

\* C34: if the plotter shuts down while the two other nodes stay up and the links between
\* them work, the new plotter builds an aggregate in the end, also when the departing
\* plotter had accepted a circulation message it had not yet serviced.  Building an
\* aggregate raises the plotter's round and a ring at rest stays at rest (RestIsFinal),
\* so the ring may come to rest only after node 2 has counted a round.  (Refuted: the
\* message is lost with the plotter, kill starts no round, and the ring rests for good.)
C34_SurvivesPlotter ==
    (PlotterDeparted /\ AtRest) => round[2] > 0

C35_OnlyReconnectAdds ==
    numpis[last.node] > last.pre.numpis => Handled("reconnect")

\* The three nodes are listening, and no send to a listening node and no database call
\* has failed.
AllUp == faults = 0 /\ \A n \in Nodes : status[n] = "running"

\* C36: in whatever order the three nodes start listening, if they then stay up and the
\* links work, the plotter builds an aggregate in the end, also when node 1 starts and
\* makes its initial send before nodes 2 and 3 listen.  Building an aggregate raises the
\* plotter's round and a ring at rest stays at rest (RestIsFinal), so the ring may come
\* to rest only after node 3 has counted a round.  (Refuted: node 1's initial send fails
\* on both peers, node 1 is alone, and nobody else starts a round.)
C36_StartInAnyOrder ==
    (AllUp /\ AtRest) => round[3] > 0

\* What does hold of C36: if nodes 2 and 3 listen or node 3 alone listens when node 1
\* starts, the initial message is queued at a peer.
C36_StartWithListener ==
    (last.kind = "start" /\ last.node = 1 /\ faults = 0
        /\ (status[2] = "running" \/ status[3] = "running"))
    => ~AtRest

\* The last step serviced one of the notices a departing node sends.
NoticeHandled == Handled("kill") \/ Handled("gone") \/ Handled("oneless")

\* Exactly one process has been interrupted and none has ended otherwise.
OneDeparture ==
    /\ Cardinality({n \in Nodes : status[n] = "stopped"}) = 1
    /\ \A n \in Nodes : status[n] # "crashed"

\* C37: the shutdown of a single node lowers numpis at each surviving node by one at
\* most, also when the departing node's send to its next Pi fails and the notice goes to
\* the other Pi, which gets the notice addressed to it as well: with one node departed,
\* a node that one notice has taken from three to two is not taken further down by
\* another.  (Refuted: the other Pi services both notices and decrements twice.)
C37_OneDepartureOneLess ==
    (OneDeparture /\ NoticeHandled /\ last.pre.numpis = RingSize - 1)
    => numpis[last.node] = RingSize - 1

\* The ids that own a record of a payload.
OwnerSet(message) == {Owners(message)[i] : i \in 1..Len(message.vals)}

\* C38: whenever a plotter builds an aggregate, the number of distinct owner ids in it is
\* the plotter's numpis at that moment, the divisor of the averages, and the aggregate
\* holds at most one record per owner id, also after departures, after a send that went
\* to the other Pi and with nodes that do not listen yet.  (Refuted: a payload that
\* skipped a node is averaged over the full count, and one that went round twice holds a
\* node's record twice.)
C38_AggregateMatchesCount ==
    (last.kind = "deliver" /\ last.agg.kind = "list") =>
        /\ Cardinality(OwnerSet(last.agg)) = last.pre.numpis
        /\ Len(last.agg.vals) = Cardinality(OwnerSet(last.agg))

\* The second half of C38 on its own: no owner id has two records in an aggregate.
\* (Refuted as well: a payload handed back by a node whose next Pi does not listen comes
\* by its sender a second time.)
C38_OneRecordPerOwner ==
    (last.kind = "deliver" /\ last.agg.kind = "list") =>
        Len(last.agg.vals) = Cardinality(OwnerSet(last.agg))

\* A departure notice is queued at node n.
NoticeQueued(n) ==
    \E f \in BagToSet(inbox[n]) :
        DecodeMessage(f).ok /\ DecodeMessage(f).type \in {PyStr("kill"), PyStr("gone"), PyStr("oneless")}

\* The nodes that are running.
Survivors == {n \in Nodes : status[n] = "running"}

\* One node has been interrupted with both peers listening, no send has failed in the
\* ring so far, and the two peers have serviced the notices it sent them.
OneLeftCleanly ==
    /\ OneDeparture
    /\ Cardinality(Survivors) = RingSize - 1
    /\ ~lossy
    /\ \A n \in Nodes : ~NoticeQueued(n)

\* C39: after exactly one node, plotter or not, has shut down from the state in which the
\* three agree, and its notices have been delivered and serviced, the two survivors hold
\* the same plotter and the same numpis, which is 2, that plotter is one of them, and
\* exactly one of them takes itself for the plotter.
C39_SurvivorsAgree ==
    OneLeftCleanly =>
        /\ \A n \in Survivors : numpis[n] = RingSize - 1
        /\ \A n, m \in Survivors : plotter[n] = plotter[m]
        /\ \A n \in Survivors : plotter[n] \in Survivors
        /\ Cardinality({n \in Survivors : plotter[n] = n}) = 1

\* Node 1 or node 2 has left and the last of its two notices has just been serviced.
C39_Witness ==
    /\ OneLeftCleanly
    /\ status[3] = "running"
    /\ NoticeHandled
    /\ last.pre.numpis = RingSize

\* The plotter has left and the last of its two kill notices has just been serviced.
C39_WitnessPlotter ==
    /\ OneLeftCleanly
    /\ status[3] = "stopped"
    /\ Handled("kill")
    /\ plotter[1] = 2
    /\ plotter[2] = 2
====
